---- MODULE Spec2Model ----
(***************************************************************************)
(* State-machine model of the NEAR contract AdaptiveCrossChain             *)
(* (src/near-contracts/src/lib.rs): the order store, the hashed-timelock   *)
(* claim and the time-gated adaptive slippage update.                      *)
(*                                                                         *)
(* Units.  TLC integers are 32 bit, so two quantities are scaled:          *)
(*   - timestamps are counted in units of 10^11 ns (100 s), so the         *)
(*     5 minute slippage_update_interval of 300_000_000_000 ns is 3;       *)
(*   - balances are counted in units of 10^23 yocto, so the size           *)
(*     threshold 1000_000_000_000_000_000_000_000 (10^24) is 10.           *)
(* Block heights and basis points are literal.                             *)
(***************************************************************************)
EXTENDS Integers, Sequences, FiniteSets, TLC

VARIABLES
    orders,             \* UnorderedMap<u64, CrossChainOrder>
    user_orders,        \* LookupMap<AccountId, Vector<u64>>
    hashlock_to_order,  \* LookupMap<String, u64>
    slippage_history,   \* LookupMap<u64, Vector<SlippageHistory>>
    next_order_id,      \* u64
    block_height,       \* env::block_height()
    block_timestamp,    \* env::block_timestamp()
    emitted,            \* messages the last invocation handed to send_bridge_message
    promise,            \* the Promise transfer the last invocation returned, if any
    lastCall,           \* the last invocation, its outcome and return value
    step                \* inputs and output of the deviation clamp (SpecStep)

store == <<orders, user_orders, hashlock_to_order, slippage_history, next_order_id>>
envv == <<block_height, block_timestamp>>
outputs == <<emitted, promise>>
vars == <<orders, user_orders, hashlock_to_order, slippage_history, next_order_id,
          block_height, block_timestamp, emitted, promise, lastCall, step>>

----------------------------------------------------------------------------
(* Bounds of the model *)

MaxOrders == 2      \* create_cross_chain_order is explored while next_order_id <= MaxOrders
MaxTime == 3        \* the chain is explored while block_timestamp <= MaxTime
MaxInputOrders == 1 \* SpecInputs explores create_cross_chain_order while next_order_id <= MaxInputOrders
U64_MAX == 1000     \* stands for u64::MAX (2^64 - 1 exceeds TLC's integers) in the arithmetic of the deviation limit

(* Program constants *)

slippage_update_interval == 3       \* 300_000_000_000 ns, in units of 10^11 ns
default_timelock_duration == 17280  \* blocks
LargeOrderThreshold == 10           \* 10^24 yocto, in units of 10^23 yocto
ethereum_contract == "0xEthereumContract"

(* Inputs explored *)

Accounts == {"alice.near", "bob.near"}
ProtocolMakers == {"alice.near"}   \* the makers SpecProtocol explores
Claimers == {"carol.near"}
Secrets == {"alpha", "beta"}
Deposits == {0, 5}
Deviations == {30}
ChainIds == {1}
TokensOut == {"0xToken"}
BasePrices == {1}
BlocksPerTick == default_timelock_duration \div 3   \* blocks produced per unit of time

(* Outcomes: "Ok" or the message of the panic that aborted the call *)

Ok == "Ok"
ZeroDeposit == "Must attach NEAR tokens"
InvalidSecret == "Invalid secret"
UnknownOrder == "Order not found"
BadStateNotLocked == "Order not in locked state"
Expired == "Order expired"
BadStateNotActive == "Order not active"
TooSoon == "Too early to update"
BadState == {BadStateNotLocked, BadStateNotActive}
StepValues == {0, 1, 20, 30, 50, 100, 130, 200, U64_MAX - 1, U64_MAX}

----------------------------------------------------------------------------
(* Helper functions of the contract *)

\* Sha256 of the secret's bytes, hex encoded (the digests are the real ones).
generate_hashlock(secret) ==
    CASE secret = "alpha" -> "8ed3f6ad685b959ead7022518e1af76cd816f8e8ec7ccdda1ed4018e8f2223f8"
      [] secret = "beta"  -> "f44e64e75f3948e9f73f8dfa94721c4ce8cbb4f265c4790c702b2d41cfbf2753"

Hashlocks == {generate_hashlock(s) : s \in Secrets}

\* (mutant) the proposal also grows with the block timestamp
calculate_cross_chain_slippage_timed(token_in, token_out, amount, target_chain_id) ==
    LET cross_chain_premium ==
            CASE target_chain_id = 1 -> 25
              [] target_chain_id = 137 -> 50
              [] OTHER -> 100
        amount_adjustment == IF amount > LargeOrderThreshold THEN 50 ELSE 0
    IN 50 + cross_chain_premium + 25 + amount_adjustment + 10 * block_timestamp

\* (mutant) the size premium starts at the threshold instead of above it
calculate_cross_chain_slippage_ge(token_in, token_out, amount, target_chain_id) ==
    LET cross_chain_premium ==
            CASE target_chain_id = 1 -> 25
              [] target_chain_id = 137 -> 50
              [] OTHER -> 100
        amount_adjustment == IF amount >= LargeOrderThreshold THEN 50 ELSE 0
    IN 50 + cross_chain_premium + 25 + amount_adjustment

calculate_cross_chain_slippage(token_in, token_out, amount, target_chain_id) ==
    LET base_slippage == 50
        cross_chain_premium ==
            CASE target_chain_id = 1 -> 25
              [] target_chain_id = 137 -> 50
              [] OTHER -> 100
        bridge_delay_premium == 25
        amount_adjustment == IF amount > LargeOrderThreshold THEN 50 ELSE 0
    IN base_slippage + cross_chain_premium + bridge_delay_premium + amount_adjustment

calculate_volatility_score(token) == 100

estimate_bridge_delay(target_chain_id) ==
    CASE target_chain_id = 1 -> 900
      [] target_chain_id = 137 -> 300
      [] OTHER -> 1800

\* Collections: insert overwrites, get is the lookup.
MapInsert(m, k, v) == [x \in DOMAIN m \cup {k} |-> IF x = k THEN v ELSE m[x]]
EmptyMap == [x \in {} |-> 0]

----------------------------------------------------------------------------
(* State after #[init] new(ethereum_contract, bridge_contract) *)

NoCall == [op |-> "none", predecessor |-> "", order_id |-> 0, hashlock |-> "",
           secret |-> "", args |-> <<>>, result |-> Ok, ret |-> 0]
StepIdle == [new_slippage |-> 0, current_slippage |-> 0, max_slippage_deviation |-> 0,
             done |-> FALSE, final |-> 0, overflow |-> FALSE]

new ==
    /\ orders = EmptyMap
    /\ user_orders = EmptyMap
    /\ hashlock_to_order = EmptyMap
    /\ slippage_history = EmptyMap
    /\ next_order_id = 1

Init ==
    /\ new
    /\ block_height = 0
    /\ block_timestamp = 0
    /\ emitted = <<>>
    /\ promise = <<>>
    /\ lastCall = NoCall
    /\ step = StepIdle

\* The record of an invocation; args holds the arguments that have no field of their own.
Call(op, predecessor, order_id, hashlock, secret, result, ret) ==
    [op |-> op, predecessor |-> predecessor, order_id |-> order_id, hashlock |-> hashlock,
     secret |-> secret, args |-> <<>>, result |-> result, ret |-> ret]

\* (mutant) the rate-limit failure is reported and the call goes on
aborted_not_too_soon(result) == result \notin {Ok, TooSoon}

\* require!: a failed condition calls env::panic_str, which aborts the call.
aborted(result) == result # Ok

\* A panicking call: the host discards every write of the call; no message was sent
\* (every send_bridge_message follows the last require!) and no promise is returned.
Panic == UNCHANGED store /\ emitted' = <<>> /\ promise' = <<>>

\* (mutant) the message is dropped
send_bridge_message_dropped(log, message) == log

send_bridge_message(log, message) == Append(log, message)
NoMessage == <<>>
NoPromise == <<>>

\* (mutant) the transfer pays twice the amount
transfer_double(receiver, amount) == <<[receiver |-> receiver, amount |-> 2 * amount]>>

\* Promise::new(receiver).transfer(amount)
transfer(receiver, amount) == <<[receiver |-> receiver, amount |-> amount]>>

----------------------------------------------------------------------------
(* create_cross_chain_order *)

create_check(deposit) == IF ~(deposit > 0) THEN ZeroDeposit ELSE Ok

\* (mutant) the counter is read and never advanced
next_id_after_stuck(order_id) == order_id

next_id_after(order_id) == order_id + 1

\* (mutant) orders are created Locked
new_order_locked(order_id, maker, deposit, token_out, base_price, max_slippage_deviation, target_chain_id, secret) ==
    [order_id |-> order_id,
     maker |-> maker,
     token_in |-> "near",
     token_out |-> token_out,
     amount_in |-> deposit,
     base_price |-> base_price,
     current_slippage |-> 50 + (IF target_chain_id = 1 THEN 25 ELSE IF target_chain_id = 137 THEN 50 ELSE 100)
                             + 25 + (IF deposit > LargeOrderThreshold THEN 50 ELSE 0),
     max_slippage_deviation |-> max_slippage_deviation,
     target_chain_id |-> target_chain_id,
     hashlock |-> generate_hashlock(secret),
     timelock |-> block_height + default_timelock_duration,
     secret |-> <<secret>>,
     status |-> "Locked",
     created_at |-> block_timestamp,
     last_slippage_update |-> block_timestamp,
     fill_attempts |-> 0]

new_order(order_id, maker, deposit, token_out, base_price, max_slippage_deviation, target_chain_id, secret) ==
    [order_id |-> order_id,
     maker |-> maker,
     token_in |-> "near",
     token_out |-> token_out,
     amount_in |-> deposit,
     base_price |-> base_price,
     current_slippage |-> calculate_cross_chain_slippage("near", token_out, deposit, target_chain_id),
     max_slippage_deviation |-> max_slippage_deviation,
     target_chain_id |-> target_chain_id,
     hashlock |-> generate_hashlock(secret),
     timelock |-> block_height + default_timelock_duration,
     secret |-> <<secret>>,
     status |-> "Active",
     created_at |-> block_timestamp,
     last_slippage_update |-> block_timestamp,
     fill_attempts |-> 0]

\* self.hashlock_to_order.insert(&hashlock, &order_id): no check that the key is new.
insert_hashlock(index, hashlock, order_id) == MapInsert(index, hashlock, order_id)

\* (mutant) every create starts a fresh vector for the maker
push_user_order_fresh(index, maker, order_id) == MapInsert(index, maker, <<order_id>>)

\* get(&maker).unwrap_or_else(Vector::new), push, insert.
push_user_order(index, maker, order_id) ==
    LET user_order_list == IF maker \in DOMAIN index THEN index[maker] ELSE <<>>
    IN MapInsert(index, maker, Append(user_order_list, order_id))

initial_history(order) ==
    <<[timestamp |-> block_timestamp, slippage |-> order.current_slippage,
       volatility_score |-> 0, cross_chain_delay |-> 900]>>

create_cross_chain_order(predecessor, deposit, token_out, base_price, max_slippage_deviation, target_chain_id, secret) ==
    LET result == create_check(deposit)
        order_id == next_order_id
        args == [deposit |-> deposit, token_out |-> token_out, base_price |-> base_price,
                 max_slippage_deviation |-> max_slippage_deviation,
                 target_chain_id |-> target_chain_id]
        order == new_order(order_id, predecessor, deposit, token_out, base_price,
                           max_slippage_deviation, target_chain_id, secret)
    IN /\ next_order_id <= MaxOrders
       /\ IF aborted(result)
          THEN /\ Panic
               /\ lastCall' = [Call("create_cross_chain_order", predecessor, 0, "", secret, result, 0)
                                  EXCEPT !.args = args]
          ELSE /\ next_order_id' = next_id_after(next_order_id)
               /\ orders' = MapInsert(orders, order_id, order)
               /\ hashlock_to_order' = insert_hashlock(hashlock_to_order, order.hashlock, order_id)
               /\ user_orders' = push_user_order(user_orders, predecessor, order_id)
               /\ slippage_history' = MapInsert(slippage_history, order_id, initial_history(order))
               /\ emitted' = send_bridge_message(NoMessage,
                      [order_id |-> order_id, target_contract |-> ethereum_contract,
                       action |-> "create_order", data |-> order])
               /\ promise' = NoPromise
               /\ lastCall' = [Call("create_cross_chain_order", predecessor, order_id,
                                    order.hashlock, secret, result, order_id)
                                  EXCEPT !.args = args]
       /\ UNCHANGED <<envv, step>>

----------------------------------------------------------------------------
(* claim_with_secret *)

\* (mutant) the status test is left out
claim_check_no_status(hashlock, secret) ==
    IF ~(generate_hashlock(secret) = hashlock) THEN InvalidSecret
    ELSE IF hashlock \notin DOMAIN hashlock_to_order THEN UnknownOrder
    ELSE IF hashlock_to_order[hashlock] \notin DOMAIN orders THEN UnknownOrder
    ELSE IF ~(block_height < orders[hashlock_to_order[hashlock]].timelock) THEN Expired
    ELSE Ok

\* (mutant) Active orders are claimable too
claim_check_active(hashlock, secret) ==
    IF ~(generate_hashlock(secret) = hashlock) THEN InvalidSecret
    ELSE IF hashlock \notin DOMAIN hashlock_to_order THEN UnknownOrder
    ELSE IF hashlock_to_order[hashlock] \notin DOMAIN orders THEN UnknownOrder
    ELSE IF ~(orders[hashlock_to_order[hashlock]].status \in {"Active", "Locked"}) THEN BadStateNotLocked
    ELSE IF ~(block_height < orders[hashlock_to_order[hashlock]].timelock) THEN Expired
    ELSE Ok

\* (mutant) the timelock comparison is <= instead of <
claim_check_le(hashlock, secret) ==
    IF ~(generate_hashlock(secret) = hashlock) THEN InvalidSecret
    ELSE IF hashlock \notin DOMAIN hashlock_to_order THEN UnknownOrder
    ELSE IF hashlock_to_order[hashlock] \notin DOMAIN orders THEN UnknownOrder
    ELSE IF ~(orders[hashlock_to_order[hashlock]].status = "Locked") THEN BadStateNotLocked
    ELSE IF ~(block_height <= orders[hashlock_to_order[hashlock]].timelock) THEN Expired
    ELSE Ok

claim_check(hashlock, secret) ==
    IF ~(generate_hashlock(secret) = hashlock) THEN InvalidSecret
    ELSE IF hashlock \notin DOMAIN hashlock_to_order THEN UnknownOrder
    ELSE IF hashlock_to_order[hashlock] \notin DOMAIN orders THEN UnknownOrder
    ELSE IF ~(orders[hashlock_to_order[hashlock]].status = "Locked") THEN BadStateNotLocked
    ELSE IF ~(block_height < orders[hashlock_to_order[hashlock]].timelock) THEN Expired
    ELSE Ok

claim_with_secret(predecessor, hashlock, secret) ==
    LET result == claim_check(hashlock, secret)
        order_id == hashlock_to_order[hashlock]
        order == [orders[order_id] EXCEPT !.status = "Completed"]
    IN /\ IF aborted(result)
          THEN /\ Panic
               /\ lastCall' = Call("claim_with_secret", predecessor, 0, hashlock, secret, result, 0)
          ELSE /\ orders' = MapInsert(orders, order_id, order)
               /\ promise' = transfer(predecessor, order.amount_in)
               /\ UNCHANGED <<user_orders, hashlock_to_order, slippage_history, next_order_id>>
               /\ emitted' = NoMessage
               /\ lastCall' = Call("claim_with_secret", predecessor, order_id, hashlock, secret, result, 0)
       /\ UNCHANGED <<envv, step>>

----------------------------------------------------------------------------
(* update_order_slippage *)

\* (mutant) the rate limit compares with > instead of >=
update_check_gt(order_id) ==
    IF order_id \notin DOMAIN orders THEN UnknownOrder
    ELSE IF ~(orders[order_id].status = "Active") THEN BadStateNotActive
    ELSE IF ~(block_timestamp > orders[order_id].last_slippage_update + slippage_update_interval)
         THEN TooSoon
    ELSE Ok

update_check(order_id) ==
    IF order_id \notin DOMAIN orders THEN UnknownOrder
    ELSE IF ~(orders[order_id].status = "Active") THEN BadStateNotActive
    ELSE IF ~(block_timestamp >= orders[order_id].last_slippage_update + slippage_update_interval)
         THEN TooSoon
    ELSE Ok

slippage_change(new_slippage, current_slippage) ==
    IF new_slippage > current_slippage
    THEN new_slippage - current_slippage
    ELSE current_slippage - new_slippage

\* (mutant) the proposal is taken as it is, without the deviation limit
final_slippage_unclamped(new_slippage, current_slippage, max_slippage_deviation) ==
    [value |-> new_slippage % (U64_MAX + 1), overflow |-> new_slippage > U64_MAX]

\* (mutant) every update moves by the whole deviation, also when the proposal is nearer
final_slippage_full_step(new_slippage, current_slippage, max_slippage_deviation) ==
    LET raw ==
          IF new_slippage > current_slippage
          THEN current_slippage + max_slippage_deviation
          ELSE IF current_slippage > max_slippage_deviation
               THEN current_slippage - max_slippage_deviation
               ELSE 0
    IN [value |-> raw % (U64_MAX + 1), overflow |-> raw < 0 \/ raw > U64_MAX]

\* The deviation limit.  value is the u64 the expression yields (wrapped when an
\* addition or subtraction leaves 0..U64_MAX), overflow says whether one did.
final_slippage(new_slippage, current_slippage, max_slippage_deviation) ==
    LET raw ==
          IF slippage_change(new_slippage, current_slippage) > max_slippage_deviation
          THEN IF new_slippage > current_slippage
               THEN current_slippage + max_slippage_deviation
               ELSE IF current_slippage > max_slippage_deviation
                    THEN current_slippage - max_slippage_deviation
                    ELSE 0
          ELSE new_slippage
    IN [value |-> raw % (U64_MAX + 1), overflow |-> raw < 0 \/ raw > U64_MAX]

\* (mutant) the pushed vector is not written back
push_history_lost(histories, order_id, entry) == histories

\* if let Some(mut history) = self.slippage_history.get(&order_id) { push; insert }
push_history(histories, order_id, entry) ==
    IF order_id \in DOMAIN histories
    THEN MapInsert(histories, order_id, Append(histories[order_id], entry))
    ELSE histories

update_order_slippage(order_id) ==
    LET result == update_check(order_id)
        old == orders[order_id]
        new_slippage == calculate_cross_chain_slippage(old.token_in, old.token_out,
                                                       old.amount_in, old.target_chain_id)
        final == final_slippage(new_slippage, old.current_slippage, old.max_slippage_deviation)
        order == [old EXCEPT !.current_slippage = final.value,
                             !.last_slippage_update = block_timestamp]
    IN /\ IF aborted(result)
          THEN /\ Panic
               /\ lastCall' = Call("update_order_slippage", "", order_id, "", "", result, 0)
          ELSE /\ orders' = MapInsert(orders, order_id, order)
               /\ slippage_history' = push_history(slippage_history, order_id,
                      [timestamp |-> block_timestamp, slippage |-> final.value,
                       volatility_score |-> calculate_volatility_score(order.token_out),
                       cross_chain_delay |-> estimate_bridge_delay(order.target_chain_id)])
               /\ emitted' = send_bridge_message(NoMessage,
                      [order_id |-> order_id, target_contract |-> ethereum_contract,
                       action |-> "update_slippage", data |-> [slippage |-> final.value]])
               /\ promise' = NoPromise
               /\ UNCHANGED <<user_orders, hashlock_to_order, next_order_id>>
               /\ lastCall' = Call("update_order_slippage", "", order_id, "", "", result, 0)
       /\ UNCHANGED <<envv, step>>

----------------------------------------------------------------------------
(* View functions *)

get_order(order_id) == IF order_id \in DOMAIN orders THEN <<orders[order_id]>> ELSE <<>>

get_user_orders(user) == IF user \in DOMAIN user_orders THEN user_orders[user] ELSE <<>>

get_order_count == next_order_id - 1

----------------------------------------------------------------------------
(* The host: blocks come at a fixed rate; the model observes the chain once per *)
(* unit of time, BlocksPerTick blocks later.                                   *)

AdvanceBlock ==
    /\ block_timestamp < MaxTime
    /\ block_height' = block_height + BlocksPerTick
    /\ block_timestamp' = block_timestamp + 1
    /\ lastCall' = [NoCall EXCEPT !.op = "advance_block"]
    /\ emitted' = NoMessage
    /\ promise' = NoPromise
    /\ UNCHANGED <<store, step>>

----------------------------------------------------------------------------
(* The contract as written *)

CreateCrossChainOrder ==
    \E predecessor \in Accounts, deposit \in Deposits, token_out \in TokensOut,
       base_price \in BasePrices, max_slippage_deviation \in Deviations,
       target_chain_id \in ChainIds, secret \in Secrets :
        create_cross_chain_order(predecessor, deposit, token_out, base_price,
                                 max_slippage_deviation, target_chain_id, secret)

ClaimWithSecret ==
    \E predecessor \in Claimers, hashlock \in Hashlocks, secret \in Secrets :
        claim_with_secret(predecessor, hashlock, secret)

UpdateOrderSlippage ==
    \E order_id \in 1..MaxOrders : update_order_slippage(order_id)

Next ==
    \/ CreateCrossChainOrder
    \/ ClaimWithSecret
    \/ UpdateOrderSlippage
    \/ AdvanceBlock

Spec == Init /\ [][Next]_vars

\* The contract as written on a chain that keeps producing blocks and where
\* every method that can change the state is eventually called.
SpecLive ==
    /\ Init
    /\ [][Next]_vars
    /\ WF_vars(CreateCrossChainOrder)
    /\ WF_vars(ClaimWithSecret)
    /\ WF_vars(UpdateOrderSlippage)
    /\ WF_vars(AdvanceBlock)

----------------------------------------------------------------------------
(* The transitions the protocol requires and the contract does not implement:  *)
(* counterparty lock, maker cancel and expiry, as the specification's state    *)
(* machine gives them.  Each is enabled exactly when its guard holds.          *)

counterparty_lock(order_id) ==
    /\ order_id \in DOMAIN orders
    /\ orders[order_id].status = "Active"
    /\ block_height < orders[order_id].timelock
    /\ orders' = MapInsert(orders, order_id,
                           [orders[order_id] EXCEPT !.status = "Locked",
                                                    !.fill_attempts = @ + 1])
    /\ emitted' = NoMessage
    /\ lastCall' = Call("counterparty_lock", "", order_id, "", "", Ok, 0)
    /\ promise' = NoPromise
    /\ UNCHANGED <<user_orders, hashlock_to_order, slippage_history, next_order_id, envv, step>>

cancel(predecessor, order_id) ==
    /\ order_id \in DOMAIN orders
    /\ predecessor = orders[order_id].maker
    /\ orders[order_id].status = "Active"
    /\ block_height < orders[order_id].timelock
    /\ orders' = MapInsert(orders, order_id, [orders[order_id] EXCEPT !.status = "Cancelled"])
    /\ promise' = transfer(orders[order_id].maker, orders[order_id].amount_in)
    /\ emitted' = send_bridge_message(NoMessage,
           [order_id |-> order_id, target_contract |-> ethereum_contract,
            action |-> "cancel", data |-> <<>>])
    /\ lastCall' = Call("cancel", predecessor, order_id, "", "", Ok, 0)
    /\ UNCHANGED <<user_orders, hashlock_to_order, slippage_history, next_order_id, envv, step>>

expire(order_id) ==
    /\ order_id \in DOMAIN orders
    /\ orders[order_id].status \in {"Active", "Locked"}
    /\ block_height >= orders[order_id].timelock
    /\ orders' = MapInsert(orders, order_id, [orders[order_id] EXCEPT !.status = "Expired"])
    /\ promise' = transfer(orders[order_id].maker, orders[order_id].amount_in)
    /\ emitted' = NoMessage
    /\ lastCall' = Call("expire", "", order_id, "", "", Ok, 0)
    /\ UNCHANGED <<user_orders, hashlock_to_order, slippage_history, next_order_id, envv, step>>

CounterpartyLock == \E order_id \in 1..MaxOrders : counterparty_lock(order_id)

Cancel == \E predecessor \in ProtocolMakers, order_id \in 1..MaxOrders : cancel(predecessor, order_id)

Expire == \E order_id \in 1..MaxOrders : expire(order_id)

ProtocolCreate ==
    \E predecessor \in ProtocolMakers, deposit \in Deposits, token_out \in TokensOut,
       base_price \in BasePrices, max_slippage_deviation \in Deviations,
       target_chain_id \in ChainIds, secret \in Secrets :
        create_cross_chain_order(predecessor, deposit, token_out, base_price,
                                 max_slippage_deviation, target_chain_id, secret)

ProtocolNext ==
    \/ ProtocolCreate
    \/ ClaimWithSecret
    \/ UpdateOrderSlippage
    \/ AdvanceBlock
    \/ CounterpartyLock
    \/ Cancel
    \/ Expire

SpecProtocol == Init /\ [][ProtocolNext]_vars

----------------------------------------------------------------------------
(* The contract as written, explored over the arguments of                     *)
(* create_cross_chain_order: deposits on both sides of the size threshold,     *)
(* the three arms of the chain match, deviations 0 and above 10000; one maker  *)
(* and one secret, MaxInputOrders orders.                                      *)

InputDeposits == {0, 5, 10, 11, 20}
InputChainIds == {1, 137, 56}
InputDeviations == {0, 10001}

InputCreate ==
    /\ next_order_id <= MaxInputOrders
    /\ \E deposit \in InputDeposits, token_out \in TokensOut, base_price \in BasePrices,
          max_slippage_deviation \in InputDeviations, target_chain_id \in InputChainIds :
           create_cross_chain_order("alice.near", deposit, token_out, base_price,
                                    max_slippage_deviation, target_chain_id, "alpha")

InputNext ==
    \/ InputCreate
    \/ UpdateOrderSlippage
    \/ AdvanceBlock

SpecInputs == Init /\ [][InputNext]_vars

----------------------------------------------------------------------------
(* The deviation limit of update_order_slippage as a function of its three    *)
(* inputs: the proposal of the risk model, the stored slippage and the stored *)
(* deviation, each drawn from StepValues.                                     *)

StepInit ==
    /\ new
    /\ block_height = 0
    /\ block_timestamp = 0
    /\ emitted = <<>>
    /\ promise = <<>>
    /\ lastCall = NoCall
    /\ step \in {[new_slippage |-> n, current_slippage |-> c, max_slippage_deviation |-> d,
                  done |-> FALSE, final |-> 0, overflow |-> FALSE] :
                 n \in StepValues, c \in StepValues, d \in StepValues}

ApplyStep ==
    LET final == final_slippage(step.new_slippage, step.current_slippage,
                                step.max_slippage_deviation)
    IN /\ ~step.done
       /\ step' = [step EXCEPT !.done = TRUE, !.final = final.value,
                               !.overflow = final.overflow]
       /\ UNCHANGED <<store, envv, outputs, lastCall>>

\* order.current_slippage = final_slippage; the next call reads it and the risk
\* model proposes the same value again.
StoreStep ==
    /\ step.done
    /\ step' = [step EXCEPT !.done = FALSE, !.current_slippage = step.final]
    /\ UNCHANGED <<store, envv, outputs, lastCall>>

StepNext ==
    \/ ApplyStep
    \/ StoreStep

SpecStep == StepInit /\ [][StepNext]_vars

----------------------------------------------------------------------------
(* Properties *)

Abs(x) == IF x < 0 THEN -x ELSE x

CreateOk == lastCall.op = "create_cross_chain_order" /\ lastCall.result = Ok
ClaimOk == lastCall.op = "claim_with_secret" /\ lastCall.result = Ok
UpdateOk == lastCall.op = "update_order_slippage" /\ lastCall.result = Ok

\* The order a claim's hashlock resolves to, as a sequence of zero or one order.
Resolved(hashlock) ==
    IF hashlock \in DOMAIN hashlock_to_order /\ hashlock_to_order[hashlock] \in DOMAIN orders
    THEN <<orders[hashlock_to_order[hashlock]]>>
    ELSE <<>>

\* C1: next_order_id is the number of stored orders plus 1, the stored ids are
\* exactly 1..n, each under its own key, get_order_count is the number of stored
\* orders, and a successful create returned the id just below next_order_id.
C1_OrderIds ==
    /\ next_order_id = Cardinality(DOMAIN orders) + 1
    /\ DOMAIN orders = 1..(next_order_id - 1)
    /\ \A id \in DOMAIN orders : orders[id].order_id = id
    /\ get_order_count = Cardinality(DOMAIN orders)
    /\ CreateOk => lastCall.ret = next_order_id - 1 /\ lastCall.ret \in DOMAIN orders

C1_Witness ==
    /\ CreateOk
    /\ lastCall.ret = 2
    /\ Cardinality(DOMAIN orders) = 2

\* C2: the deviation limit never moves the slippage by more than
\* max_slippage_deviation, never below 0, and none of its additions or
\* subtractions leaves the range of a u64.
C2_BoundedStep ==
    step.done =>
        /\ ~step.overflow
        /\ step.final \in 0..U64_MAX
        /\ Abs(step.final - step.current_slippage) <= step.max_slippage_deviation

C2_Witness ==
    /\ step.done
    /\ step.new_slippage = 0
    /\ step.current_slippage = 100
    /\ step.max_slippage_deviation = 30
    /\ step.final = 70

\* C3: for every stored order o, the hashlock index maps o.hashlock to o.order_id.
C3_HashlockIndex ==
    \A id \in DOMAIN orders :
        /\ orders[id].hashlock \in DOMAIN hashlock_to_order
        /\ hashlock_to_order[orders[id].hashlock] = id

\* C4: a claim succeeds only with a secret whose digest is the hashlock, on the
\* order the index resolves the hashlock to, when that order is Locked and the
\* block height is below its timelock, and it makes that order Completed; an
\* order becomes Completed only by such a claim, whose secret hashes to the
\* order's hashlock.
C4_ClaimGuard ==
    [][ /\ ClaimOk' =>
            LET h == lastCall'.hashlock
            IN /\ generate_hashlock(lastCall'.secret) = h
               /\ h \in DOMAIN hashlock_to_order
               /\ hashlock_to_order[h] \in DOMAIN orders
               /\ lastCall'.order_id = hashlock_to_order[h]
               /\ orders[hashlock_to_order[h]].status = "Locked"
               /\ block_height < orders[hashlock_to_order[h]].timelock
               /\ orders'[hashlock_to_order[h]].status = "Completed"
        /\ \A id \in DOMAIN orders :
              (orders[id].status # "Completed" /\ orders'[id].status = "Completed")
              => /\ ClaimOk'
                 /\ lastCall'.order_id = id
                 /\ generate_hashlock(lastCall'.secret) = orders[id].hashlock
      ]_vars

C4_Witness ==
    /\ ClaimOk
    /\ orders[lastCall.order_id].status = "Completed"
    /\ promise = transfer(lastCall.predecessor, orders[lastCall.order_id].amount_in)

\* C5: an order's status changes only along Active->Locked, Active->Cancelled,
\* Active->Expired, Locked->Completed, Locked->Expired, so no order leaves a
\* terminal status and no order is removed; a claim with the right secret on an
\* order that is not Locked, and an update of an order that is not Active, fail
\* with BadState.
Transitions ==
    {<<"Active", "Locked">>, <<"Active", "Cancelled">>, <<"Active", "Expired">>,
     <<"Locked", "Completed">>, <<"Locked", "Expired">>}

C5_StatusTransitions ==
    /\ [][ \A id \in DOMAIN orders :
              /\ id \in DOMAIN orders'
              /\ orders'[id].status # orders[id].status
                 => <<orders[id].status, orders'[id].status>> \in Transitions ]_vars
    /\ [](/\ ( /\ lastCall.op = "claim_with_secret"
               /\ lastCall.result # Ok
               /\ generate_hashlock(lastCall.secret) = lastCall.hashlock
               /\ Resolved(lastCall.hashlock) # <<>>
               /\ Resolved(lastCall.hashlock)[1].status # "Locked" )
             => lastCall.result \in BadState
          /\ ( /\ lastCall.op = "update_order_slippage"
               /\ lastCall.order_id \in DOMAIN orders
               /\ orders[lastCall.order_id].status # "Active" )
             => lastCall.result \in BadState)

C5_Witness ==
    /\ lastCall.op = "claim_with_secret"
    /\ lastCall.result \in BadState
    /\ Resolved(lastCall.hashlock) # <<>>
    /\ Resolved(lastCall.hashlock)[1].status = "Completed"

\* C6: a failed call leaves orders, the maker index, the hashlock index, the
\* slippage history and next_order_id as they were, sends no bridge message and
\* returns no transfer; a claim whose secret does not hash to the hashlock fails
\* with InvalidSecret.
C6_FailureAtomic ==
    /\ [][ lastCall'.result # Ok
           => UNCHANGED store /\ emitted' = <<>> /\ promise' = <<>> ]_vars
    /\ []( (lastCall.op = "claim_with_secret"
            /\ generate_hashlock(lastCall.secret) # lastCall.hashlock)
           => lastCall.result = InvalidSecret )

C6_Witness ==
    /\ lastCall.op = "claim_with_secret"
    /\ lastCall.result = InvalidSecret
    /\ generate_hashlock(lastCall.secret) # lastCall.hashlock
    /\ Resolved(lastCall.hashlock) # <<>>
    /\ Resolved(lastCall.hashlock)[1].status = "Locked"

\* C7: an update of an Active order succeeds exactly when the block timestamp
\* has reached last_slippage_update + slippage_update_interval; earlier it
\* fails with TooSoon, changes nothing and sends nothing; on success
\* last_slippage_update becomes the block timestamp.
C7_RateLimit ==
    [][ ( /\ lastCall'.op = "update_order_slippage"
          /\ lastCall'.order_id \in DOMAIN orders
          /\ orders[lastCall'.order_id].status = "Active" )
        => LET id == lastCall'.order_id
               due == orders[id].last_slippage_update + slippage_update_interval
           IN /\ (lastCall'.result = Ok) <=> (block_timestamp >= due)
              /\ block_timestamp < due
                 => /\ lastCall'.result = TooSoon
                    /\ UNCHANGED store
                    /\ emitted' = <<>>
              /\ lastCall'.result = Ok
                 => orders'[id].last_slippage_update = block_timestamp
      ]_vars

\* A second call right after an update that succeeded exactly one interval after creation.
C7_Witness ==
    /\ lastCall.op = "update_order_slippage"
    /\ lastCall.result = TooSoon
    /\ lastCall.order_id \in DOMAIN slippage_history
    /\ Len(slippage_history[lastCall.order_id]) = 2
    /\ slippage_history[lastCall.order_id][2].timestamp
         = orders[lastCall.order_id].created_at + slippage_update_interval
    /\ orders[lastCall.order_id].last_slippage_update = block_timestamp

\* C8: per order, last_slippage_update never decreases; the history has one
\* entry when the order is created; a successful update appends exactly one
\* entry, which carries the slippage then stored in the order; no other step
\* changes the history.
C8_History ==
    [][ /\ \A id \in DOMAIN orders :
              /\ id \in DOMAIN orders'
              /\ id \in DOMAIN slippage_history
              /\ id \in DOMAIN slippage_history'
              /\ orders'[id].last_slippage_update >= orders[id].last_slippage_update
              /\ IF UpdateOk' /\ lastCall'.order_id = id
                 THEN /\ Len(slippage_history'[id]) = Len(slippage_history[id]) + 1
                      /\ SubSeq(slippage_history'[id], 1, Len(slippage_history[id]))
                           = slippage_history[id]
                      /\ slippage_history'[id][Len(slippage_history'[id])].slippage
                           = orders'[id].current_slippage
                 ELSE slippage_history'[id] = slippage_history[id]
        /\ \A id \in DOMAIN orders' \ DOMAIN orders :
              /\ id \in DOMAIN slippage_history'
              /\ Len(slippage_history'[id]) = 1
      ]_vars

C8_Witness ==
    /\ UpdateOk
    /\ Len(slippage_history[lastCall.order_id]) = 2
    /\ slippage_history[lastCall.order_id][2].slippage = orders[lastCall.order_id].current_slippage

\* C9 as stated: once the block height has reached the timelock of an order, a
\* claim with that order's hashlock and a secret hashing to it fails with
\* Expired and returns no transfer.
C9_ExpiredForAnyOrder ==
    \A id \in DOMAIN orders :
        ( /\ lastCall.op = "claim_with_secret"
          /\ lastCall.hashlock = orders[id].hashlock
          /\ generate_hashlock(lastCall.secret) = orders[id].hashlock
          /\ block_height >= orders[id].timelock )
        => lastCall.result = Expired /\ promise = <<>>

\* C9 amended: once the block height has reached the timelock of the order the
\* hashlock index resolves to, a claim with a secret hashing to the hashlock
\* fails, with Expired when that order is Locked and with BadState otherwise,
\* and returns no transfer.
C9_ExpiredWhenLocked ==
    ( /\ lastCall.op = "claim_with_secret"
      /\ generate_hashlock(lastCall.secret) = lastCall.hashlock
      /\ Resolved(lastCall.hashlock) # <<>>
      /\ block_height >= Resolved(lastCall.hashlock)[1].timelock )
    => /\ lastCall.result =
            (IF Resolved(lastCall.hashlock)[1].status = "Locked" THEN Expired
             ELSE BadStateNotLocked)
       /\ promise = <<>>

C9_Witness ==
    /\ lastCall.op = "claim_with_secret"
    /\ lastCall.result = Expired
    /\ Resolved(lastCall.hashlock) # <<>>
    /\ Resolved(lastCall.hashlock)[1].status = "Locked"
    /\ block_height = Resolved(lastCall.hashlock)[1].timelock

\* C10: every stored order id occurs exactly once in the per-maker index, in the
\* vector of the order's maker, and get_user_orders(a) is the increasing
\* sequence of the ids of the orders whose maker is a.
IdsInOrder == [i \in 1..(next_order_id - 1) |-> i]
MadeBy(a) == LET made(id) == id \in DOMAIN orders /\ orders[id].maker = a
             IN SelectSeq(IdsInOrder, made)

C10_MakerIndex ==
    /\ \A id \in DOMAIN orders :
          /\ orders[id].maker \in DOMAIN user_orders
          /\ Cardinality({<<a, i>> \in {<<b, j>> : b \in DOMAIN user_orders, j \in 1..MaxOrders + 1} :
                              i <= Len(user_orders[a]) /\ user_orders[a][i] = id}) = 1
          /\ \E i \in 1..Len(user_orders[orders[id].maker]) :
                user_orders[orders[id].maker][i] = id
    /\ \A a \in Accounts \cup DOMAIN user_orders : get_user_orders(a) = MadeBy(a)

C10_Witness ==
    /\ \E a \in Accounts : get_user_orders(a) = <<1, 2>>
    /\ Cardinality(DOMAIN orders) = 2

C12_DuplicateHashlock ==
    [][ ( /\ lastCall'.op = "create_cross_chain_order"
          /\ generate_hashlock(lastCall'.secret) \in DOMAIN hashlock_to_order )
        => /\ lastCall'.result # Ok
           /\ orders' = orders
           /\ next_order_id' = next_order_id
           /\ hashlock_to_order' = hashlock_to_order
      ]_vars

\* C13: a create succeeds only with a deposit above 0 and a
\* max_slippage_deviation of at most 10000; with a zero deposit it fails with
\* ZeroDeposit, with a deviation above 10000 it fails; every stored order has
\* amount_in > 0 and max_slippage_deviation <= 10000.
C13_CreateGuards ==
    /\ lastCall.op = "create_cross_chain_order"
       => /\ lastCall.result = Ok
             => lastCall.args.deposit > 0 /\ lastCall.args.max_slippage_deviation <= 10000
          /\ lastCall.args.deposit = 0 => lastCall.result = ZeroDeposit
          /\ lastCall.args.max_slippage_deviation > 10000 => lastCall.result # Ok
    /\ \A id \in DOMAIN orders :
          /\ orders[id].amount_in > 0
          /\ orders[id].max_slippage_deviation <= 10000

\* C14: an order that is still Active or Locked when the block height has
\* reached its timelock is eventually moved to Expired with a refund of
\* amount_in to its maker, so no deposit stays held forever past the timelock.
C14_ExpiryRefund ==
    \A id \in 1..MaxOrders :
        ( /\ id \in DOMAIN orders
          /\ orders[id].status \in {"Active", "Locked"}
          /\ block_height >= orders[id].timelock )
        ~> ( /\ id \in DOMAIN orders
             /\ orders[id].status = "Expired"
             /\ promise = transfer(orders[id].maker, orders[id].amount_in) )

\* C15: every stored order has amount_in > 0, the deposit of its creation, and
\* amount_in never changes; a transfer is made only in the step that takes one
\* order from a non-terminal to a terminal status, pays that order's amount_in
\* (to the caller when the step is a claim), and a terminal order never changes
\* status again: at most one payout per order, of the value deposited for it,
\* and none while the order is non-terminal.
Terminal == {"Completed", "Expired", "Cancelled"}

C15_ValueConservation ==
    /\ [](\A id \in DOMAIN orders : orders[id].amount_in > 0)
    /\ [][ /\ \A id \in DOMAIN orders :
                 /\ id \in DOMAIN orders'
                 /\ orders'[id].amount_in = orders[id].amount_in
                 /\ orders[id].status \in Terminal => orders'[id].status = orders[id].status
           /\ CreateOk' => orders'[lastCall'.ret].amount_in = lastCall'.args.deposit
           /\ ClaimOk' =>
                 /\ Len(promise') = 1
                 /\ promise'[1].receiver = lastCall'.predecessor
                 /\ promise'[1].amount = orders[lastCall'.order_id].amount_in
           /\ IF promise' # <<>>
              THEN /\ Len(promise') = 1
                   /\ \E id \in DOMAIN orders :
                         /\ orders[id].status \notin Terminal
                         /\ orders'[id].status \in Terminal
                         /\ promise'[1].amount = orders[id].amount_in
                         /\ \A other \in DOMAIN orders \ {id} :
                               orders'[other].status = orders[other].status
              ELSE \A id \in DOMAIN orders :
                      orders[id].status \notin Terminal => orders'[id].status \notin Terminal
         ]_vars

C15_Witness ==
    /\ ClaimOk
    /\ Cardinality(DOMAIN orders) = 2
    /\ \A id \in DOMAIN orders : orders[id].status = "Completed"
    /\ promise = <<[receiver |-> "carol.near", amount |-> 5]>>

\* C16: no order returned by get_order carries the secret: its secret field is
\* None, so reading the store never yields a preimage of the order's hashlock.
C16_SecretNotStored ==
    \A id \in 1..MaxOrders :
        get_order(id) # <<>>
        => /\ get_order(id)[1].secret = <<>>
           /\ \A i \in 1..Len(get_order(id)[1].secret) :
                 generate_hashlock(get_order(id)[1].secret[i]) # get_order(id)[1].hashlock

\* C17: the value an update stores is the proposal p when |p - current| <=
\* max_slippage_deviation d, else current + d when p > current, else
\* current - min(current, d); it lies between current and p, differs from
\* current by exactly d whenever it is not p, and is p when current is p; the
\* next update starts from the stored value, so with a constant proposal the
\* slippage moves toward p in steps of d and rests there (current 100, d 30,
\* p 200 gives 130, then 160; current 20, d 50, p 0 gives 0).
Min(a, b) == IF a < b THEN a ELSE b

C17_StepValue ==
    /\ [](step.done =>
            LET p == step.new_slippage
                c == step.current_slippage
                d == step.max_slippage_deviation
                f == step.final
            IN /\ f = (IF Abs(p - c) <= d THEN p
                       ELSE IF p > c THEN c + d
                       ELSE c - Min(c, d))
               /\ (c <= f /\ f <= p) \/ (p <= f /\ f <= c)
               /\ f # p => Abs(f - c) = d
               /\ c = p => f = p
               /\ (c = 100 /\ d = 30 /\ p = 200) => f = 130
               /\ (c = 130 /\ d = 30 /\ p = 200) => f = 160
               /\ (c = 20 /\ d = 50 /\ p = 0) => f = 0)
    /\ [][ (step.done /\ ~step'.done)
           => /\ step'.current_slippage = step.final
              /\ step'.new_slippage = step.new_slippage
              /\ step'.max_slippage_deviation = step.max_slippage_deviation ]_vars

\* The second update of the sequence 100 -> 130 -> 160 under the proposal 200.
C17_Witness ==
    /\ step.done
    /\ step.new_slippage = 200
    /\ step.max_slippage_deviation = 30
    /\ step.current_slippage = 130
    /\ step.final = 160

\* C18: a successful create sends exactly one "create_order" message, for the
\* id it returned and carrying the order as stored; a successful update sends
\* exactly one "update_slippage" message, for its order and carrying the
\* current_slippage just stored; a failed call sends none, and no other step
\* sends one.
C18_BridgeMessages ==
    [][ /\ CreateOk' =>
              /\ Len(emitted') = 1
              /\ emitted'[1].action = "create_order"
              /\ emitted'[1].order_id = lastCall'.ret
              /\ lastCall'.ret \in DOMAIN orders' \ DOMAIN orders
              /\ emitted'[1].data = orders'[lastCall'.ret]
        /\ UpdateOk' =>
              /\ Len(emitted') = 1
              /\ emitted'[1].action = "update_slippage"
              /\ emitted'[1].order_id = lastCall'.order_id
              /\ emitted'[1].data.slippage = orders'[lastCall'.order_id].current_slippage
        /\ lastCall'.result # Ok => emitted' = <<>>
        /\ emitted' # <<>> => CreateOk' \/ UpdateOk'
      ]_vars

C18_Witness ==
    /\ UpdateOk
    /\ Len(emitted) = 1
    /\ emitted[1].action = "update_slippage"
    /\ emitted[1].order_id = 2
    /\ emitted[1].data.slippage = orders[2].current_slippage

\* C19: in the contract as written every stored order is Active in every
\* reachable state, so no claim_with_secret succeeds, no order is Completed
\* and no transfer is ever returned.
C19_AlwaysActive ==
    /\ \A id \in DOMAIN orders : orders[id].status = "Active"
    /\ lastCall.op = "claim_with_secret" => lastCall.result # Ok
    /\ promise = <<>>

\* A claim with the right secret for a stored order, before its timelock.
C19_Witness ==
    /\ lastCall.op = "claim_with_secret"
    /\ generate_hashlock(lastCall.secret) = lastCall.hashlock
    /\ Resolved(lastCall.hashlock) # <<>>
    /\ block_height < Resolved(lastCall.hashlock)[1].timelock
    /\ lastCall.result = BadStateNotLocked

\* C20: in the contract as written a successful update leaves current_slippage
\* as it was set at creation, whatever max_slippage_deviation is (0 included):
\* it changes only the order's last_slippage_update and appends one history
\* entry; no step changes a stored current_slippage, and every history entry of
\* an order carries the order's slippage.
C20_SlippageConstant ==
    /\ [](\A id \in DOMAIN orders :
             /\ id \in DOMAIN slippage_history
             /\ \A i \in 1..Len(slippage_history[id]) :
                   slippage_history[id][i].slippage = orders[id].current_slippage)
    /\ [][ /\ \A id \in DOMAIN orders :
                 /\ id \in DOMAIN orders'
                 /\ orders'[id].current_slippage = orders[id].current_slippage
           /\ UpdateOk' =>
                 LET id == lastCall'.order_id
                 IN /\ orders' = [orders EXCEPT ![id].last_slippage_update = block_timestamp]
                    /\ DOMAIN slippage_history' = DOMAIN slippage_history
                    /\ Len(slippage_history'[id]) = Len(slippage_history[id]) + 1
                    /\ \A other \in DOMAIN slippage_history \ {id} :
                          slippage_history'[other] = slippage_history[other]
                    /\ UNCHANGED <<user_orders, hashlock_to_order, next_order_id>>
         ]_vars

\* An update of an order whose max_slippage_deviation is 0.
C20_Witness ==
    /\ UpdateOk
    /\ orders[lastCall.order_id].max_slippage_deviation = 0
    /\ orders[lastCall.order_id].target_chain_id = 137
    /\ orders[lastCall.order_id].amount_in = 20
    /\ orders[lastCall.order_id].current_slippage = 175
    /\ Len(slippage_history[lastCall.order_id]) = 2
    /\ orders[lastCall.order_id].last_slippage_update > orders[lastCall.order_id].created_at

====
